---- MODULE Spec2Model ----
(***************************************************************************)
(* Model of pageserver/src/tenant/secondary/heatmap.rs: the heatmap a      *)
(* primary location publishes for its secondaries (HeatMapTenant ->        *)
(* HeatMapTimeline -> HeatMapLayer), its accessors, its statistics, its    *)
(* access-time normalisation and its serde wire form.                      *)
(*                                                                         *)
(* A descriptor is built with HeatMapLayer::new / HeatMapTimeline::new,    *)
(* then one operation of the file is called on it.  `tenant` is the        *)
(* descriptor built, `ret` is what the last operation returned.            *)
(***************************************************************************)
EXTENDS Integers, Sequences, FiniteSets, TLC

VARIABLES tenant, pending, op, tl, ret, wire

vars == <<tenant, pending, op, tl, ret, wire>>

(***************************************************************************)
(* Bounds of the model.                                                    *)
(***************************************************************************)
\* HeatMapLayer::new and HeatMapTimeline::new calls that build one descriptor
MaxBuilt == 5
\* limbs of the wide integers in which exact sums are stated
WideLimbs == 6

(***************************************************************************)
(* u64 arithmetic.  A u64 is kept at its full width as U64Limbs limbs of   *)
(* LimbBits bits, least significant limb first.                            *)
(***************************************************************************)
U64Bits == 64
LimbBits == 16
LimbBase == 2^LimbBits
U64Limbs == U64Bits \div LimbBits

U64Zero == [i \in 1..U64Limbs |-> 0]
U64Max == [i \in 1..U64Limbs |-> LimbBase - 1]

\* a value below LimbBase as a u64
U64Of(n) == [i \in 1..U64Limbs |-> IF i = 1 THEN n ELSE 0]

RECURSIVE AddLimbs(_, _, _, _)
\* limb-wise a + b + carry from limb i on; the last element is the carry out
AddLimbs(a, b, i, carry) ==
  IF i > Len(a) THEN <<carry>>
  ELSE LET s == a[i] + b[i] + carry
       IN  <<s % LimbBase>> \o AddLimbs(a, b, i + 1, s \div LimbBase)

\* u64 `+`: the wrapped sum and whether the addition overflowed
AddU64(a, b) ==
  LET s == AddLimbs(a, b, 1, 0)
  IN  [sum |-> SubSeq(s, 1, U64Limbs), overflow |-> s[U64Limbs + 1] # 0]

(***************************************************************************)
(* SystemTime: whole seconds and nanoseconds since UNIX_EPOCH.             *)
(***************************************************************************)
NanosPerMilli == 1000000

UNIX_EPOCH == [secs |-> 0, nanos |-> 0]

(***************************************************************************)
(* Values the uploader builds descriptors from.                            *)
(***************************************************************************)
\* Option<T>: None is the empty sequence, Some(x) is <<x>>
None == <<>>
Some(x) == <<x>>

\* TimelineId, modelled as one byte
TimelineIds == {10, 171}

\* (generation, upload_period_ms) of the descriptors built
Headers ==
  { [generation |-> 1, upload_period_ms |-> None],
    [generation |-> 2, upload_period_ms |-> Some(0)],
    [generation |-> 3, upload_period_ms |-> Some(60000)] }

\* LayerFileMetadata; get_stats reads file_size
Metadata(size) == [file_size |-> size]

\* the layers the uploader can report: hot and cold, small and huge,
\* accessed on a whole second, past the half second and short of it
LayerPool ==
  { [name |-> "L1", metadata |-> Metadata(U64Of(100)),
     access_time |-> [secs |-> 1000, nanos |-> 0], cold |-> FALSE],
    [name |-> "L2", metadata |-> Metadata(U64Of(50)),
     access_time |-> [secs |-> 2000, nanos |-> 500000000], cold |-> TRUE],
    [name |-> "L3", metadata |-> Metadata(U64Max),
     access_time |-> [secs |-> 3000, nanos |-> 499999999], cold |-> FALSE],
    [name |-> "L4", metadata |-> Metadata(U64Of(200)),
     access_time |-> UNIX_EPOCH, cold |-> FALSE] }

(***************************************************************************)
(* Constructors.                                                           *)
(***************************************************************************)
HeatMapLayer_new(name, metadata, access_time, cold) ==
  [name |-> name, metadata |-> metadata, access_time |-> access_time,
   cold |-> cold]

HeatMapTimeline_new(timeline_id, layers) ==
  [timeline_id |-> timeline_id, layers |-> layers]

HeatMapTenant(generation, timelines, upload_period_ms) ==
  [generation |-> generation, timelines |-> timelines,
   upload_period_ms |-> upload_period_ms]

(***************************************************************************)
(* HeatMapTimeline accessors.  An iterator is modelled by the sequence of  *)
(* the items it yields.                                                    *)
(***************************************************************************)
IsCold(l) == l.cold

IsHot(l) == ~l.cold

\* fault: the consuming variant without its filter
Faulty_into_hot_layers(self) == self.layers

into_hot_layers(self) == SelectSeq(self.layers, IsHot)

\* fault: the filter without its negation
Faulty_hot_layers(self) == SelectSeq(self.layers, IsCold)

hot_layers(self) == SelectSeq(self.layers, IsHot)

all_layers(self) == self.layers

(***************************************************************************)
(* HeatMapTenant::into_timelines_index: collect() into a HashMap inserts   *)
(* the (timeline_id, timeline) pairs in order, a later key replacing an    *)
(* earlier one.                                                            *)
(***************************************************************************)
\* fault: a key already present keeps its value (entry().or_insert())
Faulty_HashMapInsert(m, k, v) ==
  [x \in (DOMAIN m) \cup {k} |-> IF x \in DOMAIN m THEN m[x] ELSE v]

HashMapInsert(m, k, v) ==
  [x \in (DOMAIN m) \cup {k} |-> IF x = k THEN v ELSE m[x]]

EmptyMap == [x \in {} |-> x]

RECURSIVE CollectIndex(_, _, _)
CollectIndex(m, timelines, i) ==
  IF i > Len(timelines) THEN m
  ELSE CollectIndex(HashMapInsert(m, timelines[i].timeline_id, timelines[i]),
                    timelines, i + 1)

into_timelines_index(self) == CollectIndex(EmptyMap, self.timelines, 1)

(***************************************************************************)
(* HeatMapTenant::get_stats.  `stats.bytes += file_size` is a plain u64    *)
(* addition: when it overflows it panics in a build with overflow checks   *)
(* and wraps in a build without; `checks` is the build's setting.          *)
(***************************************************************************)
\* fault: the sum kept in 32 bits
Faulty_AccumulateBytes(bytes, size) ==
  LET s == AddU64(bytes, size)
  IN  [sum |-> [i \in 1..U64Limbs |-> IF 2 * i <= U64Limbs THEN s.sum[i] ELSE 0],
       overflow |-> FALSE]

AccumulateBytes(bytes, size) == AddU64(bytes, size)

RECURSIVE StatsOverLayers(_, _, _, _)
StatsOverLayers(stats, hot, i, checks) ==
  IF stats.panicked \/ i > Len(hot) THEN stats
  ELSE LET a == AccumulateBytes(stats.bytes, hot[i].metadata.file_size)
       IN  StatsOverLayers(
             IF a.overflow /\ checks
             THEN [panicked |-> TRUE, bytes |-> stats.bytes,
                   layers |-> stats.layers + 1]
             ELSE [panicked |-> FALSE, bytes |-> a.sum,
                   layers |-> stats.layers + 1],
             hot, i + 1, checks)

\* fault: the loop runs over all_layers
Faulty_StatsTimelineLayers(timeline) == all_layers(timeline)

StatsTimelineLayers(timeline) == hot_layers(timeline)

RECURSIVE StatsOverTimelines(_, _, _, _)
StatsOverTimelines(stats, timelines, t, checks) ==
  IF stats.panicked \/ t > Len(timelines) THEN stats
  ELSE StatsOverTimelines(
         StatsOverLayers(stats, StatsTimelineLayers(timelines[t]), 1, checks),
         timelines, t + 1, checks)

get_stats(self, checks) ==
  StatsOverTimelines([panicked |-> FALSE, bytes |-> U64Zero, layers |-> 0],
                     self.timelines, 1, checks)

(***************************************************************************)
(* HeatMapTenant::strip_atimes.                                            *)
(***************************************************************************)
\* fault: the layer is rebuilt with the default cold flag
Faulty_StripLayer(layer) ==
  [layer EXCEPT !.access_time = UNIX_EPOCH, !.cold = FALSE]

StripLayer(layer) == [layer EXCEPT !.access_time = UNIX_EPOCH]

\* fault: the layers are taken from into_hot_layers
Faulty_StripTimeline(timeline) ==
  [timeline EXCEPT !.layers = [k \in 1..Len(into_hot_layers(timeline)) |->
                                 StripLayer(into_hot_layers(timeline)[k])]]

StripTimeline(timeline) ==
  [timeline EXCEPT !.layers = [k \in 1..Len(timeline.layers) |->
                                 StripLayer(timeline.layers[k])]]

\* fault: the timelines are collected in reverse
Faulty_strip_atimes(self) ==
  HeatMapTenant(self.generation,
                [t \in 1..Len(self.timelines) |->
                   StripTimeline(self.timelines[Len(self.timelines) + 1 - t])],
                self.upload_period_ms)

strip_atimes(self) ==
  HeatMapTenant(self.generation,
                [t \in 1..Len(self.timelines) |->
                   StripTimeline(self.timelines[t])],
                self.upload_period_ms)

(***************************************************************************)
(* Wire form (derive(Serialize, Deserialize)).  An encoded struct is an    *)
(* object: a function from the names of the fields present to their        *)
(* encoded values.                                                         *)
(***************************************************************************)
HexDigits ==
  <<"0", "1", "2", "3", "4", "5", "6", "7",
    "8", "9", "a", "b", "c", "d", "e", "f">>

HexValue(c) == (CHOOSE d \in 1..16 : HexDigits[d] = c) - 1

\* serde_as DisplayFromStr on timeline_id: the id as its hex string
TimelineId_to_string(id) ==
  <<HexDigits[(id \div 16) + 1], HexDigits[(id % 16) + 1]>>

TimelineId_from_str(s) == 16 * HexValue(s[1]) + HexValue(s[2])

\* fault: milliseconds written where seconds are read
Faulty_TimestampSeconds_serialize(t) ==
  t.secs * 1000 + t.nanos \div NanosPerMilli

\* serde_as TimestampSeconds<i64> on access_time: integer seconds since the
\* epoch, the sub-second part rounded to the nearest second
TimestampSeconds_serialize(t) ==
  IF t.nanos \div NanosPerMilli >= 500 THEN t.secs + 1 ELSE t.secs

TimestampSeconds_deserialize(n) == [secs |-> n, nanos |-> 0]

\* Option<u128>: None is written as null
WireNull == [json |-> "null"]
WireNumber(n) == [json |-> "number", value |-> n]

Option_serialize(o) == IF o = None THEN WireNull ELSE WireNumber(o[1])

Option_deserialize(w) == IF w = WireNull THEN None ELSE Some(w.value)

Serialize_HeatMapLayer(l) ==
  [name |-> l.name, metadata |-> l.metadata,
   access_time |-> TimestampSeconds_serialize(l.access_time),
   cold |-> l.cold]

Serialize_HeatMapTimeline(t) ==
  [timeline_id |-> TimelineId_to_string(t.timeline_id),
   layers |-> [k \in 1..Len(t.layers) |-> Serialize_HeatMapLayer(t.layers[k])]]

Serialize_HeatMapTenant(self) ==
  [generation |-> self.generation,
   timelines |-> [t \in 1..Len(self.timelines) |->
                    Serialize_HeatMapTimeline(self.timelines[t])],
   upload_period_ms |-> Option_serialize(self.upload_period_ms)]

Ok(v) == [ok |-> TRUE, value |-> v]
DecodeError == [ok |-> FALSE]

Has(obj, field) == field \in DOMAIN obj

\* #[serde(default)] on cold: false when the field is missing
ColdOrDefault(obj) == IF Has(obj, "cold") THEN obj.cold ELSE FALSE

\* fault: a missing upload_period_ms read as zero
Faulty_UploadPeriodOrDefault(obj) ==
  IF Has(obj, "upload_period_ms")
  THEN Option_deserialize(obj.upload_period_ms)
  ELSE Some(0)

\* #[serde(default)] on upload_period_ms: None when the field is missing
UploadPeriodOrDefault(obj) ==
  IF Has(obj, "upload_period_ms")
  THEN Option_deserialize(obj.upload_period_ms)
  ELSE None

Deserialize_HeatMapLayer(obj) ==
  IF Has(obj, "name") /\ Has(obj, "metadata") /\ Has(obj, "access_time")
  THEN Ok(HeatMapLayer_new(obj.name, obj.metadata,
                           TimestampSeconds_deserialize(obj.access_time),
                           ColdOrDefault(obj)))
  ELSE DecodeError

Deserialize_HeatMapTimeline(obj) ==
  IF /\ Has(obj, "timeline_id") /\ Has(obj, "layers")
     /\ \A k \in 1..Len(obj.layers) :
          Deserialize_HeatMapLayer(obj.layers[k]).ok
  THEN Ok(HeatMapTimeline_new(
            TimelineId_from_str(obj.timeline_id),
            [k \in 1..Len(obj.layers) |->
               Deserialize_HeatMapLayer(obj.layers[k]).value]))
  ELSE DecodeError

Deserialize_HeatMapTenant(obj) ==
  IF /\ Has(obj, "generation") /\ Has(obj, "timelines")
     /\ \A t \in 1..Len(obj.timelines) :
          Deserialize_HeatMapTimeline(obj.timelines[t]).ok
  THEN Ok(HeatMapTenant(
            obj.generation,
            [t \in 1..Len(obj.timelines) |->
               Deserialize_HeatMapTimeline(obj.timelines[t]).value],
            UploadPeriodOrDefault(obj)))
  ELSE DecodeError

\* the object an uploader from before cold and upload_period_ms existed
\* writes for the same descriptor: neither field is there
WithoutField(obj, field) == [x \in (DOMAIN obj) \ {field} |-> obj[x]]

LegacyTimeline(obj) ==
  [obj EXCEPT !.layers = [k \in 1..Len(obj.layers) |->
                            WithoutField(obj.layers[k], "cold")]]

LegacyWire(self) ==
  LET obj == WithoutField(Serialize_HeatMapTenant(self), "upload_period_ms")
  IN  [obj EXCEPT !.timelines = [t \in 1..Len(obj.timelines) |->
                                   LegacyTimeline(obj.timelines[t])]]

(***************************************************************************)
(* Building a descriptor.                                                  *)
(***************************************************************************)
RECURSIVE CountLayers(_, _)
CountLayers(timelines, t) ==
  IF t > Len(timelines) THEN 0
  ELSE Len(timelines[t].layers) + CountLayers(timelines, t + 1)

\* constructor calls made so far
CountBuilt ==
  Len(tenant.timelines) + CountLayers(tenant.timelines, 1) + Len(pending)

NoWire == [absent |-> TRUE]
NoRet == <<>>

Init ==
  /\ tenant \in { HeatMapTenant(h.generation, <<>>, h.upload_period_ms) :
                  h \in Headers }
  /\ pending = <<>>
  /\ op = "build"
  /\ tl = 0
  /\ ret = NoRet
  /\ wire = NoWire

NewLayer ==
  /\ op = "build"
  /\ CountBuilt < MaxBuilt
  /\ \E l \in LayerPool :
       pending' = Append(pending,
                    HeatMapLayer_new(l.name, l.metadata, l.access_time, l.cold))
  /\ UNCHANGED <<tenant, op, tl, ret, wire>>

NewTimeline ==
  /\ op = "build"
  /\ CountBuilt < MaxBuilt
  /\ \E id \in TimelineIds :
       tenant' = [tenant EXCEPT !.timelines =
                    Append(@, HeatMapTimeline_new(id, pending))]
  /\ pending' = <<>>
  /\ UNCHANGED <<op, tl, ret, wire>>

Built == op = "build" /\ pending = <<>>

HotLayers ==
  /\ Built
  /\ \E i \in 1..Len(tenant.timelines) :
       /\ tl' = i
       /\ ret' = hot_layers(tenant.timelines[i])
  /\ op' = "hot_layers"
  /\ UNCHANGED <<tenant, pending, wire>>

IntoHotLayers ==
  /\ Built
  /\ \E i \in 1..Len(tenant.timelines) :
       /\ tl' = i
       /\ ret' = into_hot_layers(tenant.timelines[i])
  /\ op' = "into_hot_layers"
  /\ UNCHANGED <<tenant, pending, wire>>

AllLayers ==
  /\ Built
  /\ \E i \in 1..Len(tenant.timelines) :
       /\ tl' = i
       /\ ret' = all_layers(tenant.timelines[i])
  /\ op' = "all_layers"
  /\ UNCHANGED <<tenant, pending, wire>>

IntoTimelinesIndex ==
  /\ Built
  /\ ret' = into_timelines_index(tenant)
  /\ op' = "into_timelines_index"
  /\ UNCHANGED <<tenant, pending, tl, wire>>

GetStats ==
  /\ Built
  /\ \E checks \in BOOLEAN : ret' = get_stats(tenant, checks)
  /\ op' = "get_stats"
  /\ UNCHANGED <<tenant, pending, tl, wire>>

StripAtimes ==
  /\ Built
  /\ ret' = strip_atimes(tenant)
  /\ op' = "strip_atimes"
  /\ UNCHANGED <<tenant, pending, tl, wire>>

\* strip_atimes called on the descriptor strip_atimes returned
StripAtimesAgain ==
  /\ op = "strip_atimes"
  /\ ret' = strip_atimes(ret)
  /\ op' = "strip_atimes_again"
  /\ UNCHANGED <<tenant, pending, tl, wire>>

Encode ==
  /\ Built
  /\ wire' = Serialize_HeatMapTenant(tenant)
  /\ op' = "encode"
  /\ UNCHANGED <<tenant, pending, tl, ret>>

\* a heatmap written by an uploader that predates the defaulted fields
EncodeLegacy ==
  /\ Built
  /\ wire' = LegacyWire(tenant)
  /\ op' = "encode"
  /\ UNCHANGED <<tenant, pending, tl, ret>>

Decode ==
  /\ op = "encode"
  /\ ret' = Deserialize_HeatMapTenant(wire)
  /\ op' = "decode"
  /\ UNCHANGED <<tenant, pending, tl, wire>>

Next ==
  \/ NewLayer
  \/ NewTimeline
  \/ HotLayers
  \/ IntoHotLayers
  \/ AllLayers
  \/ IntoTimelinesIndex
  \/ GetStats
  \/ StripAtimes
  \/ StripAtimesAgain
  \/ Encode
  \/ EncodeLegacy
  \/ Decode

Spec == Init /\ [][Next]_vars

(***************************************************************************)
(* Properties.                                                             *)
(***************************************************************************)
\* positions of the layers of a Vec<HeatMapLayer> whose cold flag is false
HotPositions(layers) == { i \in 1..Len(layers) : layers[i].cold = FALSE }

\* how many positions of S are at or before i
RankIn(S, i) == Cardinality({ j \in S : j <= i })

\* the timeline the last accessor was called on
Receiver == tenant.timelines[tl]

\* C1: hot_layers yields exactly the layers of all_layers whose cold flag is
\* false, in their relative order; all_layers yields every stored layer
\* once, in storage order.
C1_HotFilter ==
  /\ op = "hot_layers" =>
       LET H == HotPositions(Receiver.layers)
       IN  /\ Len(ret) = Cardinality(H)
           /\ \A i \in H : ret[RankIn(H, i)] = Receiver.layers[i]
  /\ op = "all_layers" =>
       /\ Len(ret) = Len(Receiver.layers)
       /\ \A i \in 1..Len(ret) : ret[i] = Receiver.layers[i]

C1_Witness ==
  /\ op = "hot_layers"
  /\ Len(Receiver.layers) = 3
  /\ Receiver.layers[2].cold
  /\ Len(ret) = 2
  /\ ret[1] # ret[2]

\* exact sums, in integers WideLimbs limbs wide
WideZero == [i \in 1..WideLimbs |-> 0]

Widen(u) == [i \in 1..WideLimbs |-> IF i <= Len(u) THEN u[i] ELSE 0]

WideAdd(x, y) == SubSeq(AddLimbs(x, y, 1, 0), 1, WideLimbs)

FitsU64(w) == \A i \in (U64Limbs + 1)..WideLimbs : w[i] = 0

ModU64(w) == SubSeq(w, 1, U64Limbs)

RECURSIVE HotBytesOfLayers(_, _)
HotBytesOfLayers(layers, i) ==
  IF i > Len(layers) THEN WideZero
  ELSE WideAdd(IF layers[i].cold THEN WideZero
               ELSE Widen(layers[i].metadata.file_size),
               HotBytesOfLayers(layers, i + 1))

RECURSIVE HotBytesOfTimelines(_, _)
HotBytesOfTimelines(timelines, t) ==
  IF t > Len(timelines) THEN WideZero
  ELSE WideAdd(HotBytesOfLayers(timelines[t].layers, 1),
               HotBytesOfTimelines(timelines, t + 1))

\* the mathematical sum of the file sizes of the hot layers of a descriptor
ExactHotBytes(T) == HotBytesOfTimelines(T.timelines, 1)

RECURSIVE HotCountOfTimelines(_, _)
HotCountOfTimelines(timelines, t) ==
  IF t > Len(timelines) THEN 0
  ELSE Cardinality(HotPositions(timelines[t].layers))
         + HotCountOfTimelines(timelines, t + 1)

\* the number of hot layers of a descriptor
HotCount(T) == HotCountOfTimelines(T.timelines, 1)

HasColdLayer(T) ==
  \E t \in 1..Len(T.timelines) :
    \E k \in 1..Len(T.timelines[t].layers) : T.timelines[t].layers[k].cold

\* C2 as stated: for every descriptor get_stats returns the number of hot
\* layers and the sum of their file sizes.
C2_StatsAsStated ==
  (op = "get_stats" /\ ~ret.panicked) =>
    /\ ret.layers = HotCount(tenant)
    /\ Widen(ret.bytes) = ExactHotBytes(tenant)

\* C2, amended: whenever the hot file sizes sum to less than 2^64, get_stats
\* returns the number of hot layers and the sum of their file sizes, cold
\* layers contributing to neither; the layer count is right in any case.
C2_Stats ==
  op = "get_stats" =>
    /\ ~ret.panicked => ret.layers = HotCount(tenant)
    /\ FitsU64(ExactHotBytes(tenant)) =>
         /\ ~ret.panicked
         /\ ret.layers = HotCount(tenant)
         /\ Widen(ret.bytes) = ExactHotBytes(tenant)

C2_Witness ==
  /\ op = "get_stats"
  /\ ~ret.panicked
  /\ Len(tenant.timelines) = 2
  /\ HasColdLayer(tenant)
  /\ ret.layers = 2
  /\ ret.bytes = U64Of(300)

\* C6 as stated: the bytes get_stats returns are never the sum reduced
\* modulo 2^64.
C6_NoSilentOverflowAsStated ==
  (op = "get_stats" /\ ~ret.panicked) =>
    Widen(ret.bytes) = ExactHotBytes(tenant)

\* C6, amended: get_stats returns the exact sum of the hot file sizes when
\* that sum is below 2^64; when it is not, the u64 addition overflows: a
\* build with overflow checks panics, a build without returns the sum
\* modulo 2^64.
C6_U64Accumulation ==
  op = "get_stats" =>
    LET exact == ExactHotBytes(tenant)
    IN  IF FitsU64(exact)
        THEN ~ret.panicked /\ Widen(ret.bytes) = exact
        ELSE ret.panicked \/ ret.bytes = ModU64(exact)

C6_Witness ==
  /\ op = "get_stats"
  /\ ~ret.panicked
  /\ ret.layers = 1
  /\ ret.bytes = U64Max
  /\ FitsU64(ExactHotBytes(tenant))

TimelineIdsOf(timelines) ==
  { timelines[i].timeline_id : i \in 1..Len(timelines) }

\* the last position of a timeline_id in the descriptor's timelines
LastPosition(timelines, id) ==
  CHOOSE i \in 1..Len(timelines) :
    /\ timelines[i].timeline_id = id
    /\ \A j \in (i + 1)..Len(timelines) : timelines[j].timeline_id # id

\* C3: into_timelines_index has exactly one entry per distinct timeline_id,
\* the entry of an id being the last timeline with that id; duplicates are
\* accepted.
C3_Index ==
  op = "into_timelines_index" =>
    /\ DOMAIN ret = TimelineIdsOf(tenant.timelines)
    /\ \A id \in TimelineIdsOf(tenant.timelines) :
         ret[id] = tenant.timelines[LastPosition(tenant.timelines, id)]

C3_Witness ==
  /\ op = "into_timelines_index"
  /\ Len(tenant.timelines) = 3
  /\ tenant.timelines[1].timeline_id = tenant.timelines[3].timeline_id
  /\ tenant.timelines[2].timeline_id # tenant.timelines[1].timeline_id
  /\ tenant.timelines[1].layers # tenant.timelines[3].layers
  /\ Cardinality(DOMAIN ret) = 2
  /\ ret[tenant.timelines[1].timeline_id].layers = tenant.timelines[3].layers

TenantFields == {"generation", "timelines", "upload_period_ms"}

\* same timelines and layers, in the same order, up to access_time
SameButAtimes(A, B) ==
  /\ A.generation = B.generation
  /\ A.upload_period_ms = B.upload_period_ms
  /\ Len(A.timelines) = Len(B.timelines)
  /\ \A t \in 1..Len(A.timelines) :
       /\ A.timelines[t].timeline_id = B.timelines[t].timeline_id
       /\ Len(A.timelines[t].layers) = Len(B.timelines[t].layers)
       /\ \A k \in 1..Len(A.timelines[t].layers) :
            /\ A.timelines[t].layers[k].name = B.timelines[t].layers[k].name
            /\ A.timelines[t].layers[k].metadata
                 = B.timelines[t].layers[k].metadata
            /\ A.timelines[t].layers[k].cold = B.timelines[t].layers[k].cold

AllAtimes(T, P(_)) ==
  \A t \in 1..Len(T.timelines) :
    \A k \in 1..Len(T.timelines[t].layers) :
      P(T.timelines[t].layers[k].access_time)

IsEpoch(time) == time = UNIX_EPOCH

\* C4: strip_atimes returns a descriptor whose every access_time is the
\* epoch start and whose generation, upload_period_ms, timelines and layers
\* are otherwise those of its argument, in the same order.
C4_StripFrame ==
  op = "strip_atimes" =>
    /\ DOMAIN ret = TenantFields
    /\ SameButAtimes(ret, tenant)
    /\ AllAtimes(ret, IsEpoch)

C4_Witness ==
  /\ op = "strip_atimes"
  /\ Len(tenant.timelines) >= 2
  /\ HasColdLayer(tenant)
  /\ tenant.upload_period_ms # None
  /\ ~AllAtimes(tenant, IsEpoch)
  /\ ret # tenant

\* C9: strip_atimes is idempotent: called on what it returned, it returns
\* the same descriptor.
C9_StripIdempotent ==
  [][op' = "strip_atimes_again" => ret' = ret]_vars

C9_Witness ==
  /\ op = "strip_atimes_again"
  /\ Len(tenant.timelines) >= 2
  /\ tenant.timelines[1] # tenant.timelines[2]
  /\ ~AllAtimes(tenant, IsEpoch)
  /\ ret # tenant

HotNames(timeline) ==
  [k \in 1..Len(hot_layers(timeline)) |-> hot_layers(timeline)[k].name]

\* C10: strip_atimes changes neither the statistics nor the hot set:
\* get_stats has the same outcome before and after, and every timeline's
\* hot_layers yield the same names in the same order.
C10_StripKeepsStats ==
  op = "strip_atimes" =>
    /\ \A checks \in BOOLEAN :
         get_stats(ret, checks) = get_stats(tenant, checks)
    /\ Len(ret.timelines) = Len(tenant.timelines)
    /\ \A t \in 1..Len(tenant.timelines) :
         HotNames(ret.timelines[t]) = HotNames(tenant.timelines[t])

C10_Witness ==
  /\ op = "strip_atimes"
  /\ HasColdLayer(tenant)
  /\ get_stats(tenant, FALSE).layers = 2
  /\ ~AllAtimes(tenant, IsEpoch)

\* C8: into_hot_layers and hot_layers yield the same elements in the same
\* order.
C8_IntoHotSameAsHot ==
  op = "into_hot_layers" =>
    /\ Len(ret) = Len(hot_layers(Receiver))
    /\ \A k \in 1..Len(ret) : ret[k] = hot_layers(Receiver)[k]

C8_Witness ==
  /\ op = "into_hot_layers"
  /\ Len(ret) = 2
  /\ ret[1] # ret[2]
  /\ \E k \in 1..Len(Receiver.layers) : Receiver.layers[k].cold

\* the object on the wire has the fields added later
CurrentWire == Has(wire, "upload_period_ms")

HasSubSecond(time) == time.nanos # 0

\* C5 as stated: decode(encode(T)) equals T in every field.
C5_RoundTripAsStated ==
  (op = "decode" /\ CurrentWire) => (ret.ok /\ ret.value = tenant)

\* an access_time after the round trip: a whole second, the original one
\* when it was whole, otherwise less than a second away
RoundTrippedAtime(back, time) ==
  /\ back.nanos = 0
  /\ IF time.nanos = 0 THEN back.secs = time.secs
     ELSE back.secs \in {time.secs, time.secs + 1}

\* C5, amended: decode(encode(T)) equals T in generation, upload_period_ms,
\* every timeline_id and every layer's name, metadata and cold; every
\* access_time comes back as a whole number of seconds, equal to the
\* original when that has no sub-second part and less than one second away
\* from it otherwise.
C5_RoundTrip ==
  (op = "decode" /\ CurrentWire) =>
    /\ ret.ok
    /\ SameButAtimes(ret.value, tenant)
    /\ \A t \in 1..Len(tenant.timelines) :
         \A k \in 1..Len(tenant.timelines[t].layers) :
           RoundTrippedAtime(ret.value.timelines[t].layers[k].access_time,
                             tenant.timelines[t].layers[k].access_time)

C5_Witness ==
  /\ op = "decode"
  /\ CurrentWire
  /\ ret.ok
  /\ Len(tenant.timelines) >= 2
  /\ HasColdLayer(tenant)
  /\ ~AllAtimes(tenant, HasSubSecond)
  /\ ~AllAtimes(tenant, IsEpoch)
  /\ tenant.upload_period_ms = None
  /\ ret.value # tenant

AllCold(T, b) ==
  \A t \in 1..Len(T.timelines) :
    \A k \in 1..Len(T.timelines[t].layers) : T.timelines[t].layers[k].cold = b

\* C7: an object lacking upload_period_ms and every cold decodes, to
\* upload_period_ms = None and cold = false everywhere; an absent
\* upload_period_ms is absent again after encode and decode.
C7_Defaults ==
  op = "decode" =>
    /\ ~CurrentWire =>
         /\ ret.ok
         /\ ret.value.upload_period_ms = None
         /\ AllCold(ret.value, FALSE)
    /\ (CurrentWire /\ tenant.upload_period_ms = None) =>
         (ret.ok /\ ret.value.upload_period_ms = None)

C7_Witness ==
  /\ op = "decode"
  /\ ~CurrentWire
  /\ ret.ok
  /\ Len(ret.value.timelines) >= 1
  /\ Len(ret.value.timelines[1].layers) >= 2
  /\ tenant.upload_period_ms = Some(0)
  /\ HasColdLayer(tenant)

====
